---- MODULE Spec2Model ----
(***************************************************************************)
(* Model of src/Base/Model.ts: the Model base class and the Database      *)
(* engine (record collection, identity counter, query scope).             *)
(*                                                                         *)
(* JavaScript objects are modelled by a heap (address -> fields), because  *)
(* the Database stores definitions by reference and createFromTemplate     *)
(* builds every Model over a shallow copy (Object.assign).  A JavaScript   *)
(* Map is modelled as the sequence of its entries in insertion order.      *)
(* Definitions handed to insert are fresh objects (spec.md section 3: the  *)
(* Database exclusively owns a stored definition).                         *)
(***************************************************************************)
EXTENDS Integers, Sequences, FiniteSets, TLC

\* Bound on the number of inserts (caps the identity counter).
MaxId == 2

\* Columns of the interfaced model, and the values a column can hold.
Cols == {"pages", "title"}
Vals == {10, 20}
Definitions == [Cols -> Vals]
\* Identities a caller may ask for (0 is never assigned).
Indexes == 0..MaxId

VARIABLES
  autoincrement,  \* Database.autoincrement
  records,        \* Database.records   : Map<number, definition>, entries in insertion order
  lastQuery,      \* Database.lastQuery : Map<number, definition>, entries in insertion order
  heap,           \* the live objects: address -> fields
  ret,            \* what the last call returned (the Models the caller holds)
  op,             \* the last call: name, arguments, count(true) before it
  chain,          \* progress of a call chain started by where on an empty scope
  issued          \* the identities returned by insert, in call order

vars == <<autoincrement, records, lastQuery, heap, ret, op, chain, issued>>

----------------------------------------------------------------------------
(* Map<number, T> as a sequence of entries [k, v] in insertion order *)

RECURSIVE MapKeys(_)
MapKeys(m) == IF m = <<>> THEN {} ELSE {Head(m).k} \cup MapKeys(Tail(m))

MapHas(m, key) == \E n \in 1..Len(m) : m[n].k = key

\* Map.get: the value under key (only used when MapHas)
MapGet(m, key) == m[CHOOSE n \in 1..Len(m) : m[n].k = key].v

\* Map.set: an existing key keeps its position, a new key is appended
MapSet(m, key, value) ==
  IF MapHas(m, key)
  THEN [n \in 1..Len(m) |-> IF m[n].k = key THEN [k |-> key, v |-> value] ELSE m[n]]
  ELSE Append(m, [k |-> key, v |-> value])

\* Map.delete
MapDelete(m, key) == SelectSeq(m, LAMBDA e : e.k # key)

----------------------------------------------------------------------------
(* Objects *)

\* Objects are named by numbers.  The definition object the caller builds for
\* its n-th insert is object n; an object made by Object.assign gets the
\* smallest number above MaxId that is not in use.
NewAddr(h) ==
  CHOOSE n \in (MaxId + 1)..(MaxId + Cardinality(DOMAIN h) + 1) :
    /\ n \notin DOMAIN h
    /\ \A m \in (MaxId + 1)..(n - 1) : m \in DOMAIN h

\* The objects the Database references; the Models of an earlier call are dropped
Stored(h) == [a \in {records[n].v : n \in 1..Len(records)}
                    \cup {lastQuery[n].v : n \in 1..Len(lastQuery)} |-> h[a]]

\* The objects the Record Collection references
Kept(h) == [a \in {records[n].v : n \in 1..Len(records)} |-> h[a]]

\* The objects left once the Query Scope is cleared: an object only the scope
\* referenced is dropped
Release(h) == [a \in (DOMAIN h) \ ((DOMAIN Stored(h)) \ (DOMAIN Kept(h))) |-> h[a]]

\* Database.createFromTemplate: new modelDefinition(Object.assign({ id }, definition)).
\* Object.assign copies the fields into a new object; the Model's accessors
\* close over that copy.
createFromTemplateShared(h, definition, id) ==
  [heap |-> h, model |-> [id |-> id, def |-> definition]]

createFromTemplate(h, definition, id) ==
  LET a == NewAddr(h)
  IN [heap |-> h @@ (a :> h[definition]), model |-> [id |-> id, def |-> a]]

\* forEach((record, index) => models.push(this.createFromTemplate(record, index)))
RECURSIVE Instantiate(_, _, _)
Instantiate(h, entries, models) ==
  IF entries = <<>>
  THEN [heap |-> h, models |-> models]
  ELSE LET c == createFromTemplate(h, Head(entries).v, Head(entries).k)
       IN Instantiate(c.heap, Tail(entries), Append(models, c.model))

----------------------------------------------------------------------------
(* Return values and bookkeeping *)

RetModel(m)   == [kind |-> "model", models |-> <<m>>, num |-> 0]
RetUndefined  == [kind |-> "undefined", models |-> <<>>, num |-> 0]
RetArray(ms)  == [kind |-> "array", models |-> ms, num |-> 0]
RetNumber(n)  == [kind |-> "number", models |-> <<>>, num |-> n]
RetThis       == [kind |-> "this", models |-> <<>>, num |-> 0]
RetVoid       == [kind |-> "void", models |-> <<>>, num |-> 0]
RetThrow      == [kind |-> "throw", models |-> <<>>, num |-> 0]

Call(name, col, val, flag) ==
  [name |-> name, col |-> col, val |-> val, flag |-> flag, pre |-> Len(lastQuery)]

NoChain == [stage |-> "none", col |-> "-", val |-> 0, new |-> 0, matched |-> {}, old |-> <<>>]

\* The field values stored under each identity
StoredFields == [i \in MapKeys(records) |-> heap[MapGet(records, i)]]

\* The chain after insert stored definition under id: "TI" right after a truncate
ChainInsert(id, definition) ==
  [NoChain EXCEPT !.stage = IF chain.stage = "T" THEN "TI" ELSE "I",
                  !.old = (id :> definition)]

\* The chain after find(index): "IF" when it looks up the identity just inserted
ChainFind(index) ==
  IF chain.stage \in {"I", "TI"} /\ index \in DOMAIN chain.old
  THEN [chain EXCEPT !.stage = "IF"]
  ELSE NoChain

\* The chain after truncate
ChainTruncate == [NoChain EXCEPT !.stage = "T"]

Init ==
  /\ autoincrement = 0
  /\ records = <<>>
  /\ lastQuery = <<>>
  /\ heap = <<>>
  /\ ret = RetVoid
  /\ op = [name |-> "new", col |-> "-", val |-> 0, flag |-> FALSE, pre |-> 0]
  /\ chain = NoChain
  /\ issued = <<>>

----------------------------------------------------------------------------
(* Database operations *)

insertIntoScope(definition) ==
  /\ autoincrement < MaxId
  /\ LET h0 == Stored(heap)
         a  == Len(issued) + 1
         h1 == h0 @@ (a :> definition)
         id == autoincrement + 1
         c  == createFromTemplate(h1, a, id)
     IN /\ autoincrement' = id
        /\ records' = MapSet(records, id, a)
        /\ lastQuery' = MapSet(lastQuery, id, a)
        /\ heap' = c.heap
        /\ ret' = RetModel(c.model)
        /\ issued' = Append(issued, c.model.id)
  /\ op' = Call("insert", "-", 0, FALSE)
  /\ chain' = ChainInsert(autoincrement + 1, definition)

insert(definition) ==
  /\ autoincrement < MaxId
  /\ LET h0 == Stored(heap)
         a  == Len(issued) + 1
         h1 == h0 @@ (a :> definition)
         id == autoincrement + 1
         c  == createFromTemplate(h1, a, id)
     IN /\ autoincrement' = id
        /\ records' = MapSet(records, id, a)
        /\ heap' = c.heap
        /\ ret' = RetModel(c.model)
        /\ issued' = Append(issued, c.model.id)
  /\ op' = Call("insert", "-", 0, FALSE)
  /\ chain' = ChainInsert(autoincrement + 1, definition)
  /\ UNCHANGED lastQuery

\* Database.switchRecordsRetrieval
switchRecordsRetrieval(state) == IF state THEN lastQuery ELSE records

\* The identities whose stored record has column = value (the identity itself for "id")
Matching(column, value) ==
  IF column = "id"
  THEN {i \in MapKeys(records) : i = value}
  ELSE {i \in MapKeys(records) : heap[MapGet(records, i)][column] = value}

\* The entries of a Map, last one first
RECURSIVE Reversed(_)
Reversed(m) == IF m = <<>> THEN <<>> ELSE Append(Reversed(Tail(m)), Head(m))

allReversed ==
  /\ LET r == Instantiate(Stored(heap), Reversed(records), <<>>)
     IN /\ heap' = r.heap
        /\ ret' = RetArray(r.models)
  /\ op' = Call("all", "-", 0, FALSE)
  /\ chain' = NoChain
  /\ UNCHANGED <<autoincrement, records, lastQuery, issued>>

all ==
  /\ LET r == Instantiate(Stored(heap), records, <<>>)
     IN /\ heap' = r.heap
        /\ ret' = RetArray(r.models)
  /\ op' = Call("all", "-", 0, FALSE)
  /\ chain' = NoChain
  /\ UNCHANGED <<autoincrement, records, lastQuery, issued>>

count(scopedSize) ==
  /\ ret' = RetNumber(IF scopedSize THEN Len(lastQuery) ELSE Len(records))
  /\ heap' = Stored(heap)
  /\ op' = Call("count", "-", 0, scopedSize)
  /\ chain' = NoChain
  /\ UNCHANGED <<autoincrement, records, lastQuery, issued>>

\* The loop of delete: [records, recordsRemoved] after visiting the entries
RECURSIVE deleteLoop(_, _, _)
deleteLoop(recs, entries, recordsRemoved) ==
  IF entries = <<>>
  THEN [records |-> recs, recordsRemoved |-> recordsRemoved]
  ELSE IF MapHas(recs, Head(entries).k)
       THEN deleteLoop(MapDelete(recs, Head(entries).k), Tail(entries), recordsRemoved + 1)
       ELSE deleteLoop(recs, Tail(entries), recordsRemoved)

deleteFirstOnly ==
  /\ LET r == deleteLoop(records, IF lastQuery = <<>> THEN <<>> ELSE <<Head(lastQuery)>>, 0)
     IN /\ records' = r.records
        /\ ret' = RetNumber(r.recordsRemoved)
        /\ heap' = [a \in {r.records[n].v : n \in 1..Len(r.records)} |-> heap[a]]
  /\ lastQuery' = <<>>
  /\ op' = Call("delete", "-", 0, FALSE)
  /\ chain' = IF chain.stage = "W" THEN [chain EXCEPT !.stage = "WD"]
              ELSE IF chain.stage = "WD" THEN [chain EXCEPT !.stage = "WDD"]
              ELSE NoChain
  /\ UNCHANGED <<autoincrement, issued>>

deleteKeepsScope ==
  /\ LET r == deleteLoop(records, lastQuery, 0)
     IN /\ records' = r.records
        /\ ret' = RetNumber(r.recordsRemoved)
        /\ heap' = Stored(heap)
  /\ op' = Call("delete", "-", 0, FALSE)
  /\ chain' = IF chain.stage = "W" THEN [chain EXCEPT !.stage = "WD"]
              ELSE IF chain.stage = "WD" THEN [chain EXCEPT !.stage = "WDD"]
              ELSE NoChain
  /\ UNCHANGED <<autoincrement, lastQuery, issued>>

delete ==
  /\ LET r == deleteLoop(records, lastQuery, 0)
     IN /\ records' = r.records
        /\ ret' = RetNumber(r.recordsRemoved)
        /\ heap' = [a \in {r.records[n].v : n \in 1..Len(r.records)} |-> heap[a]]
  /\ lastQuery' = <<>>
  /\ op' = Call("delete", "-", 0, FALSE)
  /\ chain' = IF chain.stage = "W" THEN [chain EXCEPT !.stage = "WD"]
              ELSE IF chain.stage = "WD" THEN [chain EXCEPT !.stage = "WDD"]
              ELSE NoChain
  /\ UNCHANGED <<autoincrement, issued>>

findClearsScope(index) ==
  /\ IF ~MapHas(records, index)
     THEN /\ heap' = Kept(heap)
          /\ ret' = RetUndefined
     ELSE LET c == createFromTemplate(Stored(heap), MapGet(records, index), index)
          IN /\ heap' = Release(c.heap)
             /\ ret' = RetModel(c.model)
  /\ op' = Call("find", "id", index, FALSE)
  /\ chain' = ChainFind(index)
  /\ lastQuery' = <<>>
  /\ UNCHANGED <<autoincrement, records, issued>>

find(index) ==
  /\ IF ~MapHas(records, index)
     THEN /\ heap' = Stored(heap)
          /\ ret' = RetUndefined
     ELSE LET c == createFromTemplate(Stored(heap), MapGet(records, index), index)
          IN /\ heap' = c.heap
             /\ ret' = RetModel(c.model)
  /\ op' = Call("find", "id", index, FALSE)
  /\ chain' = ChainFind(index)
  /\ UNCHANGED <<autoincrement, records, lastQuery, issued>>

firstKeepsScope(retrieveFromLastQuery) ==
  /\ LET source == switchRecordsRetrieval(retrieveFromLastQuery)
     IN IF source = <<>>
        THEN /\ heap' = Stored(heap)
             /\ ret' = RetUndefined
        ELSE LET c == createFromTemplate(Stored(heap), source[1].v, source[1].k)
             IN /\ heap' = c.heap
                /\ ret' = RetModel(c.model)
  /\ op' = Call("first", "-", 0, retrieveFromLastQuery)
  /\ chain' = NoChain
  /\ UNCHANGED <<autoincrement, records, lastQuery, issued>>

\* The smallest of a non-empty set of identities
Smallest(ids) == CHOOSE i \in ids : \A j \in ids : i <= j

firstSmallest(retrieveFromLastQuery) ==
  /\ LET source == switchRecordsRetrieval(retrieveFromLastQuery)
     IN IF source = <<>>
        THEN /\ heap' = Stored(heap)
             /\ ret' = RetUndefined
             /\ lastQuery' = lastQuery
        ELSE LET c == createFromTemplate(Stored(heap), MapGet(source, Smallest(MapKeys(source))),
                                         Smallest(MapKeys(source)))
             IN /\ heap' = Release(c.heap)
                /\ ret' = RetModel(c.model)
                /\ lastQuery' = <<>>
  /\ op' = Call("first", "-", 0, retrieveFromLastQuery)
  /\ chain' = NoChain
  /\ UNCHANGED <<autoincrement, records, issued>>

first(retrieveFromLastQuery) ==
  /\ LET source == switchRecordsRetrieval(retrieveFromLastQuery)
     IN IF source = <<>>
        THEN /\ heap' = Stored(heap)
             /\ ret' = RetUndefined
             /\ lastQuery' = lastQuery
        ELSE LET c == createFromTemplate(Stored(heap), source[1].v, source[1].k)
             IN /\ heap' = Release(c.heap)
                /\ ret' = RetModel(c.model)
                /\ lastQuery' = <<>>
  /\ op' = Call("first", "-", 0, retrieveFromLastQuery)
  /\ chain' = NoChain
  /\ UNCHANGED <<autoincrement, records, issued>>

getKeepsScope ==
  /\ LET r == Instantiate(Stored(heap), lastQuery, <<>>)
     IN /\ heap' = r.heap
        /\ ret' = RetArray(r.models)
  /\ op' = Call("get", "-", 0, FALSE)
  /\ chain' = IF chain.stage = "WU" THEN [chain EXCEPT !.stage = "WUG"] ELSE NoChain
  /\ UNCHANGED <<autoincrement, records, lastQuery, issued>>

getClearsBoth ==
  /\ LET r == Instantiate(Stored(heap), lastQuery, <<>>)
     IN /\ heap' = [a \in (DOMAIN r.heap) \ (DOMAIN Stored(heap)) |-> r.heap[a]]
        /\ ret' = RetArray(r.models)
  /\ lastQuery' = <<>>
  /\ records' = <<>>
  /\ op' = Call("get", "-", 0, FALSE)
  /\ chain' = IF chain.stage = "WU" THEN [chain EXCEPT !.stage = "WUG"] ELSE NoChain
  /\ UNCHANGED <<autoincrement, issued>>

get ==
  /\ LET r == Instantiate(Stored(heap), lastQuery, <<>>)
     IN /\ heap' = Release(r.heap)
        /\ ret' = RetArray(r.models)
  /\ lastQuery' = <<>>
  /\ op' = Call("get", "-", 0, FALSE)
  /\ chain' = IF chain.stage = "WU" THEN [chain EXCEPT !.stage = "WUG"] ELSE NoChain
  /\ UNCHANGED <<autoincrement, records, issued>>

lastByIteration(retrieveFromLastQuery) ==
  /\ LET source == switchRecordsRetrieval(retrieveFromLastQuery)
     IN IF source = <<>>
        THEN /\ heap' = Stored(heap)
             /\ ret' = RetUndefined
             /\ lastQuery' = lastQuery
        ELSE LET c == createFromTemplate(Stored(heap), source[Len(source)].v, source[Len(source)].k)
             IN /\ heap' = Release(c.heap)
                /\ ret' = RetModel(c.model)
                /\ lastQuery' = <<>>
  /\ op' = Call("last", "-", 0, retrieveFromLastQuery)
  /\ chain' = NoChain
  /\ UNCHANGED <<autoincrement, records, issued>>

last(retrieveFromLastQuery) ==
  /\ LET source == switchRecordsRetrieval(retrieveFromLastQuery)
     IN IF ~MapHas(source, autoincrement)
        THEN /\ heap' = Stored(heap)
             /\ ret' = RetUndefined
             /\ lastQuery' = lastQuery
        ELSE LET c == createFromTemplate(Stored(heap), MapGet(source, autoincrement), autoincrement)
             IN /\ heap' = Release(c.heap)
                /\ ret' = RetModel(c.model)
                /\ lastQuery' = <<>>
  /\ op' = Call("last", "-", 0, retrieveFromLastQuery)
  /\ chain' = NoChain
  /\ UNCHANGED <<autoincrement, records, issued>>

truncateResetsCounter ==
  /\ lastQuery' = <<>>
  /\ records' = <<>>
  /\ autoincrement' = 0
  /\ heap' = <<>>
  /\ ret' = RetVoid
  /\ op' = Call("truncate", "-", 0, FALSE)
  /\ chain' = ChainTruncate
  /\ UNCHANGED issued

truncateKeepsScope ==
  /\ records' = <<>>
  /\ heap' = [a \in {lastQuery[n].v : n \in 1..Len(lastQuery)} |-> heap[a]]
  /\ ret' = RetVoid
  /\ op' = Call("truncate", "-", 0, FALSE)
  /\ chain' = ChainTruncate
  /\ UNCHANGED <<autoincrement, lastQuery, issued>>

truncate ==
  /\ lastQuery' = <<>>
  /\ records' = <<>>
  /\ heap' = <<>>
  /\ ret' = RetVoid
  /\ op' = Call("truncate", "-", 0, FALSE)
  /\ chain' = ChainTruncate
  /\ UNCHANGED <<autoincrement, issued>>

\* The loop of update: the heap after visiting the entries, and whether it threw
RECURSIVE updateLoopSkips(_, _, _, _)
updateLoopSkips(h, entries, column, value) ==
  IF entries = <<>>
  THEN [heap |-> h, thrown |-> FALSE]
  ELSE IF ~MapHas(records, Head(entries).k)
       THEN updateLoopSkips(h, Tail(entries), column, value)
       ELSE LET dbModel == MapGet(records, Head(entries).k)
                h1 == [h EXCEPT ![Head(entries).v][column] = value]
                h2 == [h1 EXCEPT ![dbModel][column] = value]
            IN updateLoopSkips(h2, Tail(entries), column, value)

RECURSIVE updateLoop(_, _, _, _)
updateLoop(h, entries, column, value) ==
  IF entries = <<>>
  THEN [heap |-> h, thrown |-> FALSE]
  ELSE IF ~MapHas(records, Head(entries).k)
       THEN [heap |-> h, thrown |-> TRUE]
       ELSE LET dbModel == MapGet(records, Head(entries).k)
                h1 == [h EXCEPT ![Head(entries).v][column] = value]
                h2 == [h1 EXCEPT ![dbModel][column] = value]
            IN updateLoop(h2, Tail(entries), column, value)

\* The chain after update(column, value)
ChainUpdate(column, value) ==
  IF chain.stage = "W" /\ chain.col = column
  THEN [chain EXCEPT !.stage = "WU", !.new = value]
  ELSE NoChain

updateEvery(column, value) ==
  /\ LET r == updateLoop(Stored(heap), records, column, value)
     IN /\ heap' = r.heap
        /\ ret' = IF r.thrown THEN RetThrow ELSE RetThis
  /\ op' = Call("update", column, value, FALSE)
  /\ chain' = ChainUpdate(column, value)
  /\ UNCHANGED <<autoincrement, records, lastQuery, issued>>

updateClearsScope(column, value) ==
  /\ LET r == updateLoop(Stored(heap), lastQuery, column, value)
     IN /\ heap' = Kept(r.heap)
        /\ ret' = IF r.thrown THEN RetThrow ELSE RetThis
  /\ lastQuery' = <<>>
  /\ op' = Call("update", column, value, FALSE)
  /\ chain' = ChainUpdate(column, value)
  /\ UNCHANGED <<autoincrement, records, issued>>

update(column, value) ==
  /\ LET r == updateLoop(Stored(heap), lastQuery, column, value)
     IN /\ heap' = r.heap
        /\ ret' = IF r.thrown THEN RetThrow ELSE RetThis
  /\ op' = Call("update", column, value, FALSE)
  /\ chain' = ChainUpdate(column, value)
  /\ UNCHANGED <<autoincrement, records, lastQuery, issued>>

\* Database.whereIndexed: the Query Scope after the lookup
whereIndexedReplaces(lq, index) ==
  IF MapHas(records, index)
  THEN <<[k |-> index, v |-> MapGet(records, index)]>>
  ELSE lq

whereIndexed(lq, index) ==
  IF MapHas(records, index)
  THEN MapSet(lq, index, MapGet(records, index))
  ELSE lq

\* The loop of where: the Query Scope after visiting the entries
RECURSIVE whereLoop(_, _, _, _)
whereLoop(lq, entries, whereColumn, value) ==
  IF entries = <<>>
  THEN lq
  ELSE whereLoop(IF heap[Head(entries).v][whereColumn] = value
                 THEN MapSet(lq, Head(entries).k, Head(entries).v)
                 ELSE lq,
                 Tail(entries), whereColumn, value)

\* The chain after where(whereColumn, value)
ChainWhere(whereColumn, value) ==
  IF lastQuery = <<>>
  THEN [stage |-> "W", col |-> whereColumn, val |-> value, new |-> 0,
        matched |-> Matching(whereColumn, value), old |-> StoredFields]
  ELSE NoChain

whereNarrows(whereColumn, value) ==
  /\ lastQuery' = IF whereColumn = "id"
                  THEN whereIndexed(lastQuery, value)
                  ELSE SelectSeq(whereLoop(lastQuery, records, whereColumn, value),
                                 LAMBDA e : heap[e.v][whereColumn] = value)
  /\ heap' = Stored(heap)
  /\ ret' = RetThis
  /\ op' = Call("where", whereColumn, value, FALSE)
  /\ chain' = ChainWhere(whereColumn, value)
  /\ UNCHANGED <<autoincrement, records, issued>>

whereResets(whereColumn, value) ==
  /\ lastQuery' = IF whereColumn = "id"
                  THEN whereIndexed(lastQuery, value)
                  ELSE whereLoop(<<>>, records, whereColumn, value)
  /\ heap' = Stored(heap)
  /\ ret' = RetThis
  /\ op' = Call("where", whereColumn, value, FALSE)
  /\ chain' = ChainWhere(whereColumn, value)
  /\ UNCHANGED <<autoincrement, records, issued>>

where(whereColumn, value) ==
  /\ lastQuery' = IF whereColumn = "id"
                  THEN whereIndexed(lastQuery, value)
                  ELSE whereLoop(lastQuery, records, whereColumn, value)
  /\ heap' = Stored(heap)
  /\ ret' = RetThis
  /\ op' = Call("where", whereColumn, value, FALSE)
  /\ chain' = ChainWhere(whereColumn, value)
  /\ UNCHANGED <<autoincrement, records, issued>>

----------------------------------------------------------------------------
(* Model: the setter of an accessor property, on the n-th Model the caller holds *)

set(n, key, value) ==
  /\ n \in 1..Len(ret.models)
  /\ heap' = [heap EXCEPT ![ret.models[n].def][key] = value]
  /\ op' = Call("set", "-", 0, FALSE)
  /\ chain' = NoChain
  /\ UNCHANGED <<autoincrement, records, lastQuery, ret, issued>>

----------------------------------------------------------------------------

Next ==
  \/ \E d \in Definitions : insert(d)
  \/ all
  \/ \E b \in BOOLEAN : count(b)
  \/ delete
  \/ \E i \in Indexes : find(i)
  \/ \E b \in BOOLEAN : first(b)
  \/ get
  \/ \E b \in BOOLEAN : last(b)
  \/ truncate
  \/ \E c \in Cols, v \in Vals : update(c, v)
  \/ \E c \in Cols, v \in Vals : where(c, v)
  \/ \E i \in Indexes : where("id", i)
  \/ \E n \in 1..MaxId, c \in Cols, v \in Vals : set(n, c, v)

Spec == Init /\ [][Next]_vars

----------------------------------------------------------------------------
(* A removal that bypasses the Database's own delete: the "external delete"
   the comment in update describes.  It takes a record out of the Record
   Collection and leaves the Query Scope as it is.  SpecStale runs the
   Database's operations together with it. *)

externalDelete(index) ==
  /\ MapHas(records, index)
  /\ records' = MapDelete(records, index)
  /\ heap' = [a \in {records'[n].v : n \in 1..Len(records')}
                     \cup {lastQuery[n].v : n \in 1..Len(lastQuery)} |-> heap[a]]
  /\ ret' = RetVoid
  /\ op' = Call("externalDelete", "id", index, FALSE)
  /\ chain' = NoChain
  /\ UNCHANGED <<autoincrement, lastQuery, issued>>

NextStale ==
  \/ \E d \in Definitions : insert(d)
  \/ all
  \/ \E b \in BOOLEAN : count(b)
  \/ delete
  \/ \E i \in Indexes : find(i)
  \/ \E b \in BOOLEAN : first(b)
  \/ get
  \/ \E b \in BOOLEAN : last(b)
  \/ truncate
  \/ \E c \in Cols, v \in Vals : update(c, v)
  \/ \E c \in Cols, v \in Vals : where(c, v)
  \/ \E i \in Indexes : where("id", i)
  \/ \E i \in Indexes : externalDelete(i)

SpecStale == Init /\ [][NextStale]_vars

----------------------------------------------------------------------------
(* What a retrieval shows *)

\* The field values of the Model find(i) returns, for a stored identity i
FindShows(i) ==
  LET c == createFromTemplate(Stored(heap), MapGet(records, i), i)
  IN c.heap[c.model.def]

\* What find shows for every stored identity
FindView == [i \in MapKeys(records) |-> FindShows(i)]

\* The identities and field values of the Models all() returns, in order
AllView ==
  LET r == Instantiate(Stored(heap), records, <<>>)
  IN [n \in 1..Len(r.models) |->
        [id |-> r.models[n].id, fields |-> r.heap[r.models[n].def]]]

\* The identities and field values of the Models the last call returned
Returned ==
  [n \in 1..Len(ret.models) |->
     [id |-> ret.models[n].id, fields |-> heap[ret.models[n].def]]]

----------------------------------------------------------------------------
(* Properties *)

\* C1: each insert returns an identity strictly greater than every identity
\* returned by an earlier insert, also when delete or truncate ran in
\* between; no identity is assigned twice.
C1_IdentitiesStrictlyIncrease ==
  \A j, k \in 1..Len(issued) : j < k => issued[j] < issued[k]

\* an insert that follows another insert and a removal
C1_Witness ==
  /\ op.name = "insert"
  /\ Len(issued) >= 2
  /\ Len(records) < Len(issued)

\* C2: writing a field of a Model the caller holds changes no stored record:
\* find shows for every identity the field values it showed before the write.
C2_ModelWriteLeavesStore ==
  [][op'.name = "set" => FindView' = FindView]_vars

\* a held Model of a stored record was written and now differs from the record
C2_Witness ==
  /\ op.name = "set"
  /\ \E n \in 1..Len(ret.models) :
       /\ MapHas(records, ret.models[n].id)
       /\ Returned[n].fields # FindShows(ret.models[n].id)

ChainRest == [i \in (DOMAIN chain.old) \ chain.matched |-> chain.old[i]]

\* C4: from an empty Query Scope, where matching N records followed by
\* delete removes exactly those N records and returns N; a delete right
\* after it returns 0 and removes nothing.
C4_DeleteRemovesMatched ==
  /\ chain.stage = "WD" =>
       /\ ret.num = Cardinality(chain.matched)
       /\ FindView = ChainRest
  /\ chain.stage = "WDD" =>
       /\ ret.num = 0
       /\ FindView = ChainRest

\* the second delete, after a delete that removed some records and kept others
C4_Witness ==
  /\ chain.stage = "WDD"
  /\ chain.matched # {}
  /\ records # <<>>

\* C5: the Query Scope is empty right after last(fromScope) returns, for
\* either value of fromScope, also when last returns the empty result.
C5_ScopeEmptyAfterLast ==
  op.name = "last" => Len(lastQuery) = 0

\* C6: the Query Scope is empty right after first(fromScope) returns, for
\* either value of fromScope, also when first returns the empty result.
C6_ScopeEmptyAfterFirst ==
  op.name = "first" => Len(lastQuery) = 0

\* first(false) read the Record Collection while the Query Scope held entries
C6_Witness ==
  /\ op.name = "first"
  /\ ~op.flag
  /\ op.pre > 0
  /\ ret.kind = "model"

\* C7 as stated: after where('id', i) for a stored i the Query Scope holds
\* exactly the entry for i.
C7_WhereIdReplaces ==
  (op.name = "where" /\ op.col = "id" /\ MapHas(records, op.val)) =>
     (Len(lastQuery) = 1 /\ lastQuery[1].k = op.val)

\* C7 amended: where('id', i) for a stored i adds the entry for i to the
\* Query Scope and keeps every entry the scope held before.
C7_WhereIdAdds ==
  [][(op'.name = "where" /\ op'.col = "id" /\ MapHas(records, op'.val)) =>
       /\ MapKeys(lastQuery') = MapKeys(lastQuery) \cup {op'.val}
       /\ \A i \in MapKeys(lastQuery) : MapGet(lastQuery', i) = MapGet(lastQuery, i)
       /\ MapGet(lastQuery', op'.val) = MapGet(records, op'.val)]_vars

\* where on the identity column found a stored record and the scope holds another one too
C7_Witness ==
  /\ op.name = "where"
  /\ op.col = "id"
  /\ MapHas(records, op.val)
  /\ MapHas(lastQuery, op.val)
  /\ Len(lastQuery) >= 2

\* C8: where(col, v) on a non-identity column accumulates: the identities in
\* the Query Scope after the call are those before it united with every
\* stored identity whose record has col = v.
C8_WhereAccumulates ==
  [][(op'.name = "where" /\ op'.col \in Cols) =>
       MapKeys(lastQuery') =
         MapKeys(lastQuery) \cup
           {i \in MapKeys(records) : FindView[i][op'.col] = op'.val}]_vars

\* a second where kept an entry that does not match it and added one that does
C8_Witness ==
  /\ op.name = "where"
  /\ op.col \in Cols
  /\ op.pre > 0
  /\ \E i \in MapKeys(lastQuery) : FindShows(i)[op.col] # op.val
  /\ \E i \in MapKeys(lastQuery) : FindShows(i)[op.col] = op.val

C10_WhereUpdateGet ==
  /\ chain.stage = "WU" => MapKeys(lastQuery) = chain.matched
  /\ chain.stage = "WUG" =>
       /\ ret.kind = "array"
       /\ Len(Returned) = Cardinality(chain.matched)
       /\ {Returned[n].id : n \in 1..Len(Returned)} = chain.matched
       /\ \A n \in 1..Len(Returned) : Returned[n].fields[chain.col] = chain.new
       /\ {AllView[n].id : n \in 1..Len(AllView)} = DOMAIN chain.old
       /\ \A n \in 1..Len(AllView), c \in Cols :
            AllView[n].fields[c] =
              IF AllView[n].id \in chain.matched /\ c = chain.col
              THEN chain.new
              ELSE chain.old[AllView[n].id][c]

\* the chain changed a matched record and left another record alone
C10_Witness ==
  /\ chain.stage = "WUG"
  /\ chain.matched # {}
  /\ chain.new # chain.val
  /\ chain.matched # DOMAIN chain.old

\* The identities of a Map's entries, in iteration order
KeySeq(m) == [n \in 1..Len(m) |-> m[n].k]

\* The identities of the Models the last call returned, in order
ReturnedIds == [n \in 1..Len(Returned) |-> Returned[n].id]

\* C11: get() returns exactly one Model for each identity in the Query Scope,
\* carrying that identity and the stored record's current field values, and
\* leaves the Query Scope empty; a get() right after it returns the empty
\* sequence.
C11_GetReturnsScope ==
  [][op'.name = "get" =>
       /\ ret'.kind = "array"
       /\ ReturnedIds' = KeySeq(lastQuery)
       /\ \A n \in 1..Len(lastQuery) :
            Returned'[n].fields = FindView[lastQuery[n].k]
       /\ lastQuery' = <<>>
       /\ (op.name = "get" => ret'.models = <<>>)]_vars

\* get returned the two Models of a scope of two entries
C11_Witness ==
  /\ op.name = "get"
  /\ op.pre >= 2
  /\ Len(ret.models) = op.pre
  /\ lastQuery = <<>>

\* The greatest identity of a sequence of identities, 0 for the empty one
Greatest(ids) ==
  IF ids = <<>> THEN 0
  ELSE CHOOSE m \in {ids[n] : n \in 1..Len(ids)} :
         \A n \in 1..Len(ids) : ids[n] <= m

\* C12: after truncate() the Record Collection and the Query Scope are empty
\* (both counts 0, find empty for every identity) and the identity counter
\* is unchanged: the next insert returns the greatest identity assigned
\* before the truncate plus one.
C12_TruncateKeepsCounter ==
  /\ chain.stage = "T" =>
       /\ Len(records) = 0
       /\ Len(lastQuery) = 0
       /\ \A i \in Indexes : ~MapHas(records, i)
       /\ autoincrement = Greatest(issued)
  /\ chain.stage = "TI" =>
       /\ ret.kind = "model"
       /\ Returned[1].id = Greatest(SubSeq(issued, 1, Len(issued) - 1)) + 1

\* an insert right after a truncate that followed an earlier insert
C12_Witness ==
  /\ chain.stage = "TI"
  /\ Len(issued) >= 2

\* C13: where, get, first, last, update, find, all and count leave the set
\* of stored identities, and so count(false), unchanged.
C13_OnlyInsertDeleteTruncate ==
  [][op'.name \in {"where", "get", "first", "last", "update", "find", "all", "count"} =>
       /\ MapKeys(records') = MapKeys(records)
       /\ Len(records') = Len(records)]_vars

\* get consumed a scope and the records are still stored
C13_Witness ==
  /\ op.name = "get"
  /\ op.pre > 0
  /\ Len(records) >= op.pre

\* C14: update raises when an identity held in the Query Scope is absent from
\* the Record Collection, and completes without error when every identity
\* in the Query Scope is stored.
C14_UpdateRaisesOnStale ==
  [][op'.name = "update" =>
       (ret'.kind = "throw" <=>
          \E i \in MapKeys(lastQuery) : i \notin MapKeys(records))]_vars

\* update raised
C14_Witness ==
  /\ op.name = "update"
  /\ ret.kind = "throw"
  /\ \E i \in MapKeys(lastQuery) : i \notin MapKeys(records)

\* C15: find(i) returns a Model with identity i and the stored record's field
\* values when i is stored (the inserted definition's values right after
\* insert), the empty result when i is not stored, and changes neither the
\* Record Collection, the Query Scope nor the identity counter.
C15_FindReturnsStored ==
  /\ [][op'.name = "find" =>
          /\ IF op'.val \in MapKeys(records)
             THEN /\ ret'.kind = "model"
                  /\ Returned'[1].id = op'.val
                  /\ Returned'[1].fields = heap[MapGet(records, op'.val)]
             ELSE ret'.kind = "undefined"
          /\ records' = records
          /\ StoredFields' = StoredFields
          /\ lastQuery' = lastQuery
          /\ autoincrement' = autoincrement]_vars
  /\ [](chain.stage = "IF" =>
          /\ ret.kind = "model"
          /\ Returned[1].fields = chain.old[Returned[1].id])

\* find looked up the record just inserted, with entries in the Query Scope
C15_Witness ==
  /\ chain.stage = "IF"
  /\ lastQuery # <<>>

\* C16: every identity in the Query Scope is in the Record Collection and
\* maps to the same record there.
C16_ScopeNeverStale ==
  \A n \in 1..Len(lastQuery) :
    /\ MapHas(records, lastQuery[n].k)
    /\ MapGet(records, lastQuery[n].k) = lastQuery[n].v

\* the scope holds entries after an earlier removal
C16_Witness ==
  /\ lastQuery # <<>>
  /\ Len(records) < Len(issued)

C18_FirstEntry ==
  [][op'.name = "first" =>
       IF op'.flag
       THEN IF lastQuery = <<>>
            THEN ret'.kind = "undefined"
            ELSE /\ ret'.kind = "model"
                 /\ Returned'[1].id = lastQuery[1].k
                 /\ Returned'[1].fields = heap[lastQuery[1].v]
       ELSE IF MapKeys(records) = {}
            THEN ret'.kind = "undefined"
            ELSE /\ ret'.kind = "model"
                 /\ \A i \in MapKeys(records) : Returned'[1].id <= i
                 /\ Returned'[1].fields = StoredFields[Returned'[1].id]]_vars

\* first(true) returned an entry that is not the one with the smallest identity
C18_Witness ==
  /\ op.name = "first"
  /\ op.flag
  /\ op.pre >= 2
  /\ ret.kind = "model"
  /\ \E i \in MapKeys(records) : i < ret.models[1].id

\* C19: where(col, v) on a non-identity column keeps every entry of the Query
\* Scope in place, and a second call with the same arguments right after
\* the first leaves the Query Scope as the first call left it.
C19_WhereKeepsAndIdempotent ==
  [][(op'.name = "where" /\ op'.col \in Cols) =>
       /\ Len(lastQuery') >= Len(lastQuery)
       /\ SubSeq(lastQuery', 1, Len(lastQuery)) = lastQuery
       /\ (op.name = "where" /\ op.col = op'.col /\ op.val = op'.val)
            => lastQuery' = lastQuery]_vars

\* a where that found all its matches in the scope already, beside another entry
C19_Witness ==
  /\ op.name = "where"
  /\ op.col \in Cols
  /\ op.pre = Len(lastQuery)
  /\ \E i \in MapKeys(lastQuery) : StoredFields[i][op.col] = op.val
  /\ \E i \in MapKeys(lastQuery) : StoredFields[i][op.col] # op.val

\* C20: insert leaves the Query Scope and every stored record unchanged; the
\* new record is not in the scope, count(true) stays and count(false)
\* grows by one.
C20_InsertFrame ==
  [][op'.name = "insert" =>
       /\ lastQuery' = lastQuery
       /\ Len(lastQuery') = Len(lastQuery)
       /\ Len(records') = Len(records) + 1
       /\ \A i \in MapKeys(records) :
            /\ i \in MapKeys(records')
            /\ FindView'[i] = FindView[i]
       /\ \A i \in MapKeys(records') \ MapKeys(records) :
            i \notin MapKeys(lastQuery')]_vars

\* an insert of a record equal to one the Query Scope holds
C20_Witness ==
  /\ op.name = "insert"
  /\ lastQuery # <<>>
  /\ \E i \in MapKeys(lastQuery) :
       StoredFields[i] = StoredFields[ret.models[1].id]
====
